---- MODULE Spec2Model ----
(***************************************************************************)
(* A model of the protoc-compatible argument resolution of buf:            *)
(* internal/buf/cmd/buf/internal/protoc/flags.go.                          *)
(*                                                                         *)
(* A Go string is a sequence of lexemes: a maximal run of letters and      *)
(* digits is one lexeme, and every punctuation character ("-", "_", "=",   *)
(* ":", ",", "/", "@", " ") is a lexeme of its own.  "--foo_out=o:d" is    *)
(* <<"-","-","foo","_","out","=","o",":","d">> and "" is <<>>.  The string *)
(* functions the code calls are computed on this representation.           *)
(***************************************************************************)
EXTENDS Integers, Sequences, FiniteSets, TLC

(***************************************************************************)
(* Bounds of the model.                                                    *)
(***************************************************************************)
\* the longest list of flags in the top-level argument vector
MaxFlags == 2
\* the longest list of positional arguments in the top-level argument vector
MaxArgs == 2
\* the largest number of lines of an argument file
MaxLines == 2

(***************************************************************************)
(* Strings.                                                                *)
(***************************************************************************)
Last(s) == s[Len(s)]

Front(s) == SubSeq(s, 1, Len(s) - 1)

\* strings.HasPrefix
HasPrefix(s, prefix) ==
    /\ Len(s) >= Len(prefix)
    /\ SubSeq(s, 1, Len(prefix)) = prefix

\* strings.HasSuffix
HasSuffix(s, suffix) ==
    /\ Len(s) >= Len(suffix)
    /\ SubSeq(s, Len(s) - Len(suffix) + 1, Len(s)) = suffix

\* strings.TrimPrefix
TrimPrefix(s, prefix) ==
    IF HasPrefix(s, prefix) THEN SubSeq(s, Len(prefix) + 1, Len(s)) ELSE s

\* strings.TrimSuffix
TrimSuffix(s, suffix) ==
    IF HasSuffix(s, suffix) THEN SubSeq(s, 1, Len(s) - Len(suffix)) ELSE s

\* the positions of the separator sep in s
SepPositions(s, sep) == {i \in 1..Len(s) : s[i] = sep}

Min(S) == CHOOSE x \in S : \A y \in S : x <= y

Max(S) == CHOOSE x \in S : \A y \in S : x >= y

\* strings.Split(s, sep): every piece between separators, "" gives [""]
RECURSIVE Split(_, _)
Split(s, sep) ==
    IF SepPositions(s, sep) = {}
    THEN <<s>>
    ELSE LET i == Min(SepPositions(s, sep))
         IN <<SubSeq(s, 1, i - 1)>> \o Split(SubSeq(s, i + 1, Len(s)), sep)

\* strings.SplitN(s, sep, 2): split at the first separator only
SplitN2(s, sep) ==
    IF SepPositions(s, sep) = {}
    THEN <<s>>
    ELSE LET i == Min(SepPositions(s, sep))
         IN <<SubSeq(s, 1, i - 1), SubSeq(s, i + 1, Len(s))>>

\* strings.Replace(s, old, new, -1) for one-character old and new
Replace(s, old, new) == [i \in 1..Len(s) |-> IF s[i] = old THEN new ELSE s[i]]

\* strings.TrimSpace
RECURSIVE TrimSpace(_)
TrimSpace(s) ==
    IF s = <<>> THEN s
    ELSE IF Head(s) = " " THEN TrimSpace(Tail(s))
    ELSE IF Last(s) = " " THEN TrimSpace(Front(s))
    ELSE s

\* the path itself, directories and all
BaseWhole(s) == s

\* filepath.Base: the last element of the path, trailing slashes removed
RECURSIVE Base(_)
Base(s) ==
    IF s = <<>> THEN <<".">>
    ELSE IF Last(s) = "/" THEN (IF Len(s) = 1 THEN <<"/">> ELSE Base(Front(s)))
    ELSE IF SepPositions(s, "/") = {} THEN s
    ELSE SubSeq(s, Max(SepPositions(s, "/")) + 1, Len(s))

\* all sequences over S of length at most n
SeqsUpTo(S, n) == UNION {[1..k -> S] : k \in 0..n}

\* all orders in which the elements of the finite set S can be enumerated
Orders(S) == {o \in [1..Cardinality(S) -> S] : \A x \in S : \E i \in DOMAIN o : o[i] = x}

(***************************************************************************)
(* Flag names.                                                             *)
(***************************************************************************)
includeDirPathsFlagName == <<"proto", "_", "path">>

includeImportsFlagName == <<"include", "_", "imports">>

includeSourceInfoFlagName == <<"include", "_", "source", "_", "info">>

printFreeFieldNumbersFlagName == <<"print", "_", "free", "_", "field", "_", "numbers">>

outputFlagName == <<"descriptor", "_", "set", "_", "out">>

pluginPathValuesFlagName == <<"plugin">>

errorFormatFlagName == <<"error", "_", "format">>

pluginFakeFlagName == <<"protoc", "_", "plugin", "_", "fake">>

encodeFlagName == <<"encode">>

decodeFlagName == <<"decode">>

decodeRawFlagName == <<"decode", "_", "raw">>

descriptorSetInFlagName == <<"descriptor", "_", "set", "_", "in">>

defaultIncludeDirPaths == <<<<".">>>>

defaultErrorFormat == <<"gcc">>

(***************************************************************************)
(* flagsBuilder and the values it collects.                                *)
(***************************************************************************)
\* a map lookup that yields the zero value for a missing key
Has(m, k) == k \in DOMAIN m

\* m with m[k] set to v, k added when missing
Put(m, k, v) == [x \in DOMAIN m \cup {k} |-> IF x = k THEN v ELSE m[x]]

EmptyMap == [x \in {} |-> <<>>]

newPluginValue == [OutIndex |-> -1, OptIndex |-> -1]

newPluginInfo == [Out |-> <<>>, Opt |-> <<>>, Path |-> <<>>]

newFlagsBuilder ==
    [IncludeDirPaths |-> <<>>, IncludeImports |-> FALSE, IncludeSourceInfo |-> FALSE,
     PrintFreeFieldNumbers |-> FALSE, Output |-> <<>>, ErrorFormat |-> <<>>,
     PluginPathValues |-> <<>>,
     Encode |-> <<>>, Decode |-> <<>>, DecodeRaw |-> FALSE, DescriptorSetIn |-> <<>>,
     pluginFake |-> <<>>, pluginNameToValue |-> EmptyMap]

\* the flags Bind declares: the field each one stores to and the type of its value
Bind ==
    Put(Put(Put(Put(Put(Put(Put(Put(Put(Put(Put(Put(EmptyMap,
      includeDirPathsFlagName, [field |-> "IncludeDirPaths", type |-> "stringSlice"]),
      includeImportsFlagName, [field |-> "IncludeImports", type |-> "bool"]),
      includeSourceInfoFlagName, [field |-> "IncludeSourceInfo", type |-> "bool"]),
      printFreeFieldNumbersFlagName, [field |-> "PrintFreeFieldNumbers", type |-> "bool"]),
      outputFlagName, [field |-> "Output", type |-> "string"]),
      errorFormatFlagName, [field |-> "ErrorFormat", type |-> "string"]),
      pluginPathValuesFlagName, [field |-> "PluginPathValues", type |-> "stringSlice"]),
      pluginFakeFlagName, [field |-> "pluginFake", type |-> "stringSlice"]),
      encodeFlagName, [field |-> "Encode", type |-> "string"]),
      decodeFlagName, [field |-> "Decode", type |-> "string"]),
      decodeRawFlagName, [field |-> "DecodeRaw", type |-> "bool"]),
      descriptorSetInFlagName, [field |-> "DescriptorSetIn", type |-> "stringSlice"])

\* the one-letter aliases Bind declares (StringSliceVarP "I", StringVarP "o")
Shorthands == Put(Put(EmptyMap, "I", includeDirPathsFlagName), "o", outputFlagName)

\* an index once recorded is kept: the first occurrence wins
pluginFakeParseKeepFirst(f, name, suffix, isOut) ==
    LET pluginName == TrimSuffix(name, suffix)
        pluginValue == IF Has(f.pluginNameToValue, pluginName)
                       THEN f.pluginNameToValue[pluginName]
                       ELSE newPluginValue
        index == Len(f.pluginFake)
    IN [f EXCEPT !.pluginNameToValue =
            Put(f.pluginNameToValue, pluginName,
                IF isOut
                THEN [pluginValue EXCEPT !.OutIndex = IF @ >= 0 THEN @ ELSE index]
                ELSE [pluginValue EXCEPT !.OptIndex = IF @ >= 0 THEN @ ELSE index])]

\* pluginFakeParse: the index the next value of the capture slot will get is
\* recorded for the plugin named by the flag, as its out or its opt index
pluginFakeParse(f, name, suffix, isOut) ==
    LET pluginName == TrimSuffix(name, suffix)
        pluginValue == IF Has(f.pluginNameToValue, pluginName)
                       THEN f.pluginNameToValue[pluginName]
                       ELSE newPluginValue
        index == Len(f.pluginFake)
    IN [f EXCEPT !.pluginNameToValue =
            Put(f.pluginNameToValue, pluginName,
                IF isOut THEN [pluginValue EXCEPT !.OutIndex = index]
                         ELSE [pluginValue EXCEPT !.OptIndex = index])]

\* Normalize: the builder after the call and the name the flag is looked up by
Normalize(f, name) ==
    IF name # outputFlagName /\ HasSuffix(name, <<"_", "out">>)
    THEN [f |-> pluginFakeParse(f, name, <<"_", "out">>, TRUE), name |-> pluginFakeFlagName]
    ELSE IF HasSuffix(name, <<"_", "opt">>)
    THEN [f |-> pluginFakeParse(f, name, <<"_", "opt">>, FALSE), name |-> pluginFakeFlagName]
    ELSE [f |-> f, name |-> Replace(name, "-", "_")]

(***************************************************************************)
(* The flag parser (pflag) as Bind configures it.                          *)
(***************************************************************************)
\* the elements a string slice flag adds for one value: the value is read as
\* one line of comma-separated fields, and the empty value has no field
readAsCSV(val) == IF val = <<>> THEN <<>> ELSE Split(val, ",")

\* Flag.Value.Set: the builder with the value stored to the flag's field
Set(f, flag, value) ==
    CASE flag.type = "stringSlice" ->
            [ok |-> TRUE, f |-> [f EXCEPT ![flag.field] = @ \o readAsCSV(value)]]
      [] flag.type = "string" ->
            [ok |-> TRUE, f |-> [f EXCEPT ![flag.field] = value]]
      [] flag.type = "bool" ->
            IF value \in {<<"true">>, <<"false">>}
            THEN [ok |-> TRUE, f |-> [f EXCEPT ![flag.field] = (value = <<"true">>)]]
            ELSE [ok |-> FALSE, f |-> f]

\* FlagSet.Parse: the arguments are consumed left to right; flags set fields of
\* the builder f, everything else is kept, in order, as a positional argument
RECURSIVE Parse(_, _, _)
Parse(f, a, args) ==
    IF a = <<>> THEN [ok |-> TRUE, f |-> f, args |-> args]
    ELSE LET s == Head(a)
             rest == Tail(a)
         IN IF Len(s) = 0 \/ s[1] # "-" \/ Len(s) = 1
            THEN Parse(f, rest, Append(args, s))
            ELSE IF s[2] = "-"
            THEN IF Len(s) = 2
                 THEN [ok |-> TRUE, f |-> f, args |-> args \o rest]
                 ELSE \* parseLongArg
                      LET name == SubSeq(s, 3, Len(s))
                          split == SplitN2(name, "=")
                          n == Normalize(f, split[1])
                      IN IF name[1] = "-" \/ name[1] = "="
                         THEN [ok |-> FALSE, f |-> f, args |-> args]
                         ELSE IF ~Has(Bind, n.name)
                         THEN [ok |-> FALSE, f |-> n.f, args |-> args]
                         ELSE LET flag == Bind[n.name]
                              IN IF Len(split) = 2
                                 THEN LET r == Set(n.f, flag, split[2])
                                      IN IF r.ok THEN Parse(r.f, rest, args)
                                         ELSE [ok |-> FALSE, f |-> r.f, args |-> args]
                                 ELSE IF flag.type = "bool"
                                 THEN Parse(Set(n.f, flag, <<"true">>).f, rest, args)
                                 ELSE IF rest # <<>>
                                 THEN LET r == Set(n.f, flag, Head(rest))
                                      IN Parse(r.f, Tail(rest), args)
                                 ELSE [ok |-> FALSE, f |-> n.f, args |-> args]
            ELSE \* parseShortArg, for the aliases of flags that take a value
                 IF ~Has(Shorthands, s[2])
                 THEN [ok |-> FALSE, f |-> f, args |-> args]
                 ELSE LET flag == Bind[Shorthands[s[2]]]
                      IN IF Len(s) > 2
                         THEN LET value == IF s[3] = "=" THEN SubSeq(s, 4, Len(s))
                                           ELSE SubSeq(s, 3, Len(s))
                              IN Parse(Set(f, flag, value).f, rest, args)
                         ELSE IF rest # <<>>
                         THEN Parse(Set(f, flag, Head(rest)).f, Tail(rest), args)
                         ELSE [ok |-> FALSE, f |-> f, args |-> args]

(***************************************************************************)
(* Results and errors.                                                     *)
(***************************************************************************)
NoError == [kind |-> "none"]

\* an error value: which error, and the plugin name or path it names
Error(error, arg) == [kind |-> "error", error |-> error, arg |-> arg]

\* a run-time panic (a slice index out of range)
Panic == [kind |-> "panic"]

errArgEmpty == Error("ArgEmpty", <<>>)

errNoInputFiles == Error("NoInputFiles", <<>>)

\* an error of the flag parser or of reading a file, propagated unchanged
errParse(flagFilePath) == Error("Parse", flagFilePath)

errReadFile(flagFilePath) == Error("ReadFile", flagFilePath)

(***************************************************************************)
(* parsePluginNameToPluginInfo.                                            *)
(***************************************************************************)
\* a new pluginInfo whatever the map holds
GetPluginInfoFresh(pluginNameToPluginInfo, pluginName) == newPluginInfo

\* the map value for pluginName, a new pluginInfo when there is none
GetPluginInfo(pluginNameToPluginInfo, pluginName) ==
    IF Has(pluginNameToPluginInfo, pluginName)
    THEN pluginNameToPluginInfo[pluginName]
    ELSE newPluginInfo

\* the out half of one iteration of the first loop (pluginValue.OutIndex >= 0)
ParseOut(f, pluginNameToPluginInfo, pluginName) ==
    LET pluginValue == f.pluginNameToValue[pluginName]
    IN IF pluginValue.OutIndex >= Len(f.pluginFake)
       THEN [err |-> Panic, info |-> pluginNameToPluginInfo]
       ELSE LET raw == f.pluginFake[pluginValue.OutIndex + 1]
                split == Split(raw, ":")
                out == IF Len(split) = 2 THEN split[2] ELSE raw
                opt == IF Len(split) = 2 THEN split[1] ELSE <<>>
                pluginInfo == GetPluginInfo(pluginNameToPluginInfo, pluginName)
                created == Put(pluginNameToPluginInfo, pluginName, pluginInfo)
            IN IF Len(split) > 2
               THEN [err |-> Error("OutMultipleColons", <<pluginName, raw>>),
                     info |-> pluginNameToPluginInfo]
               ELSE IF pluginInfo.Out # <<>>
               THEN [err |-> Error("DuplicateOut", pluginName), info |-> created]
               ELSE IF opt # <<>> /\ pluginInfo.Opt # <<>>
               THEN [err |-> Error("DuplicateOpt", pluginName),
                     info |-> Put(created, pluginName, [pluginInfo EXCEPT !.Out = out])]
               ELSE [err |-> NoError,
                     info |-> Put(created, pluginName,
                                  [pluginInfo EXCEPT !.Out = out,
                                                     !.Opt = IF opt # <<>> THEN opt ELSE @])]

\* the opt half of one iteration of the first loop (pluginValue.OptIndex >= 0)
ParseOpt(f, pluginNameToPluginInfo, pluginName) ==
    LET pluginValue == f.pluginNameToValue[pluginName]
        pluginInfo == GetPluginInfo(pluginNameToPluginInfo, pluginName)
        created == Put(pluginNameToPluginInfo, pluginName, pluginInfo)
    IN IF pluginInfo.Opt # <<>>
       THEN [err |-> Error("DuplicateOpt", pluginName), info |-> created]
       ELSE IF pluginValue.OptIndex >= Len(f.pluginFake)
       THEN [err |-> Panic, info |-> created]
       ELSE [err |-> NoError,
             info |-> Put(created, pluginName,
                          [pluginInfo EXCEPT !.Opt = f.pluginFake[pluginValue.OptIndex + 1]])]

\* one iteration of the first loop, for the plugin pluginName
ParsePluginValue(f, pluginNameToPluginInfo, pluginName) ==
    LET pluginValue == f.pluginNameToValue[pluginName]
        afterOut == IF pluginValue.OutIndex >= 0
                    THEN ParseOut(f, pluginNameToPluginInfo, pluginName)
                    ELSE [err |-> NoError, info |-> pluginNameToPluginInfo]
    IN IF afterOut.err # NoError THEN afterOut
       ELSE IF pluginValue.OptIndex >= 0
       THEN ParseOpt(f, afterOut.info, pluginName)
       ELSE afterOut

\* the first loop, over f.pluginNameToValue in the order the map yields its keys
RECURSIVE ParsePluginValues(_, _, _)
ParsePluginValues(f, pluginNameToPluginInfo, order) ==
    IF order = <<>> THEN [err |-> NoError, info |-> pluginNameToPluginInfo]
    ELSE LET r == ParsePluginValue(f, pluginNameToPluginInfo, Head(order))
         IN IF r.err # NoError THEN r ELSE ParsePluginValues(f, r.info, Tail(order))

\* one iteration of the second loop where a later path replaces an earlier one
ParsePluginPathValueOverwrite(pluginNameToPluginInfo, pluginPathValue) ==
    LET split == SplitN2(pluginPathValue, "=")
        name == IF Len(split) = 1 THEN Base(split[1]) ELSE split[1]
        pluginPath == IF Len(split) = 1 THEN split[1] ELSE split[2]
        pluginName == TrimPrefix(name, <<"protoc", "-", "gen", "-">>)
        pluginInfo == GetPluginInfo(pluginNameToPluginInfo, pluginName)
    IN IF ~HasPrefix(name, <<"protoc", "-", "gen", "-">>)
       THEN [err |-> Error("PluginPathNameInvalidPrefix", name),
             info |-> pluginNameToPluginInfo]
       ELSE [err |-> NoError,
             info |-> Put(pluginNameToPluginInfo, pluginName,
                          [pluginInfo EXCEPT !.Path = pluginPath])]

\* one iteration of the second loop, for one value of the plugin flag
ParsePluginPathValue(pluginNameToPluginInfo, pluginPathValue) ==
    LET split == SplitN2(pluginPathValue, "=")
        name == IF Len(split) = 1 THEN Base(split[1]) ELSE split[1]
        pluginPath == IF Len(split) = 1 THEN split[1] ELSE split[2]
        pluginName == TrimPrefix(name, <<"protoc", "-", "gen", "-">>)
        pluginInfo == GetPluginInfo(pluginNameToPluginInfo, pluginName)
        created == Put(pluginNameToPluginInfo, pluginName, pluginInfo)
    IN IF ~HasPrefix(name, <<"protoc", "-", "gen", "-">>)
       THEN [err |-> Error("PluginPathNameInvalidPrefix", name),
             info |-> pluginNameToPluginInfo]
       ELSE IF pluginInfo.Path # <<>>
       THEN [err |-> Error("DuplicatePluginPath", pluginName), info |-> created]
       ELSE [err |-> NoError,
             info |-> Put(created, pluginName, [pluginInfo EXCEPT !.Path = pluginPath])]

\* the second loop, over f.PluginPathValues in order
RECURSIVE ParsePluginPathValues(_, _)
ParsePluginPathValues(pluginNameToPluginInfo, values) ==
    IF values = <<>> THEN [err |-> NoError, info |-> pluginNameToPluginInfo]
    ELSE LET r == ParsePluginPathValue(pluginNameToPluginInfo, Head(values))
         IN IF r.err # NoError THEN r ELSE ParsePluginPathValues(r.info, Tail(values))

\* the values of the plugin flag applied a second time
parsePluginNameToPluginInfoTwice(f, pluginNameToPluginInfo, order) ==
    LET r == ParsePluginValues(f, pluginNameToPluginInfo, order)
    IN IF r.err # NoError THEN r
       ELSE ParsePluginPathValues(r.info, f.PluginPathValues \o f.PluginPathValues)

\* parsePluginNameToPluginInfo: the error it returns and the shared table as it
\* leaves it; order is the order in which the Go map yields the plugin names
parsePluginNameToPluginInfo(f, pluginNameToPluginInfo, order) ==
    LET r == ParsePluginValues(f, pluginNameToPluginInfo, order)
    IN IF r.err # NoError THEN r
       ELSE ParsePluginPathValues(r.info, f.PluginPathValues)

(***************************************************************************)
(* merge and checkUnsupported.                                             *)
(***************************************************************************)
\* a merge in which the toggles of the nested builder replace the parent's
mergeTogglesReplaced(f, subFlagsBuilder) ==
    [f EXCEPT
       !.IncludeDirPaths = @ \o subFlagsBuilder.IncludeDirPaths,
       !.IncludeImports = subFlagsBuilder.IncludeImports,
       !.IncludeSourceInfo = subFlagsBuilder.IncludeSourceInfo,
       !.PrintFreeFieldNumbers = subFlagsBuilder.PrintFreeFieldNumbers,
       !.Output = IF subFlagsBuilder.Output # <<>> THEN subFlagsBuilder.Output ELSE @,
       !.ErrorFormat = IF subFlagsBuilder.ErrorFormat # <<>>
                       THEN subFlagsBuilder.ErrorFormat ELSE @,
       !.PluginPathValues = @ \o subFlagsBuilder.PluginPathValues,
       !.Encode = IF subFlagsBuilder.Encode # <<>> THEN subFlagsBuilder.Encode ELSE @,
       !.Decode = IF subFlagsBuilder.Decode # <<>> THEN subFlagsBuilder.Decode ELSE @,
       !.DecodeRaw = IF subFlagsBuilder.DecodeRaw THEN TRUE ELSE @,
       !.DescriptorSetIn = @ \o subFlagsBuilder.DescriptorSetIn]

\* a merge in which a value of the parent is kept once it is set
mergeFirstValueKept(f, subFlagsBuilder) ==
    [f EXCEPT
       !.IncludeDirPaths = @ \o subFlagsBuilder.IncludeDirPaths,
       !.IncludeImports = IF subFlagsBuilder.IncludeImports THEN TRUE ELSE @,
       !.IncludeSourceInfo = IF subFlagsBuilder.IncludeSourceInfo THEN TRUE ELSE @,
       !.PrintFreeFieldNumbers = IF subFlagsBuilder.PrintFreeFieldNumbers THEN TRUE ELSE @,
       !.Output = IF @ = <<>> THEN subFlagsBuilder.Output ELSE @,
       !.ErrorFormat = IF @ = <<>> THEN subFlagsBuilder.ErrorFormat ELSE @,
       !.PluginPathValues = @ \o subFlagsBuilder.PluginPathValues,
       !.Encode = IF subFlagsBuilder.Encode # <<>> THEN subFlagsBuilder.Encode ELSE @,
       !.Decode = IF subFlagsBuilder.Decode # <<>> THEN subFlagsBuilder.Decode ELSE @,
       !.DecodeRaw = IF subFlagsBuilder.DecodeRaw THEN TRUE ELSE @,
       !.DescriptorSetIn = @ \o subFlagsBuilder.DescriptorSetIn]

\* a merge in which the include directories of the nested builder come first
mergeIncludeDirPathsInFront(f, subFlagsBuilder) ==
    [f EXCEPT
       !.IncludeDirPaths = subFlagsBuilder.IncludeDirPaths \o @,
       !.IncludeImports = IF subFlagsBuilder.IncludeImports THEN TRUE ELSE @,
       !.IncludeSourceInfo = IF subFlagsBuilder.IncludeSourceInfo THEN TRUE ELSE @,
       !.PrintFreeFieldNumbers = IF subFlagsBuilder.PrintFreeFieldNumbers THEN TRUE ELSE @,
       !.Output = IF subFlagsBuilder.Output # <<>> THEN subFlagsBuilder.Output ELSE @,
       !.ErrorFormat = IF subFlagsBuilder.ErrorFormat # <<>>
                       THEN subFlagsBuilder.ErrorFormat ELSE @,
       !.PluginPathValues = @ \o subFlagsBuilder.PluginPathValues,
       !.Encode = IF subFlagsBuilder.Encode # <<>> THEN subFlagsBuilder.Encode ELSE @,
       !.Decode = IF subFlagsBuilder.Decode # <<>> THEN subFlagsBuilder.Decode ELSE @,
       !.DecodeRaw = IF subFlagsBuilder.DecodeRaw THEN TRUE ELSE @,
       !.DescriptorSetIn = @ \o subFlagsBuilder.DescriptorSetIn]

merge(f, subFlagsBuilder) ==
    [f EXCEPT
       !.IncludeDirPaths = @ \o subFlagsBuilder.IncludeDirPaths,
       !.IncludeImports = IF subFlagsBuilder.IncludeImports THEN TRUE ELSE @,
       !.IncludeSourceInfo = IF subFlagsBuilder.IncludeSourceInfo THEN TRUE ELSE @,
       !.PrintFreeFieldNumbers = IF subFlagsBuilder.PrintFreeFieldNumbers THEN TRUE ELSE @,
       !.Output = IF subFlagsBuilder.Output # <<>> THEN subFlagsBuilder.Output ELSE @,
       !.ErrorFormat = IF subFlagsBuilder.ErrorFormat # <<>>
                       THEN subFlagsBuilder.ErrorFormat ELSE @,
       !.PluginPathValues = @ \o subFlagsBuilder.PluginPathValues,
       !.Encode = IF subFlagsBuilder.Encode # <<>> THEN subFlagsBuilder.Encode ELSE @,
       !.Decode = IF subFlagsBuilder.Decode # <<>> THEN subFlagsBuilder.Decode ELSE @,
       !.DecodeRaw = IF subFlagsBuilder.DecodeRaw THEN TRUE ELSE @,
       !.DescriptorSetIn = @ \o subFlagsBuilder.DescriptorSetIn]

checkUnsupported(f) ==
    IF f.Encode # <<>> THEN Error("EncodeNotSupported", <<>>)
    ELSE IF f.Decode # <<>> THEN Error("DecodeNotSupported", <<>>)
    ELSE IF f.DecodeRaw THEN Error("DecodeRawNotSupported", <<>>)
    ELSE IF Len(f.DescriptorSetIn) > 0 THEN Error("DescriptorSetInNotSupported", <<>>)
    ELSE NoError

(***************************************************************************)
(* The state of one resolution.                                            *)
(***************************************************************************)
VARIABLES
    argv,                   \* the top-level argument vector, as given
    files,                  \* the file system: the contents of every file there is
    stack,                  \* the active calls of buildRec, the innermost last
    pluginNameToPluginInfo, \* the plugin table Build makes and every call shares
    seenFlagFilePaths,      \* the set Build makes and every call shares
    result                  \* what Build returned, Running until it returns

vars == <<argv, files, stack, pluginNameToPluginInfo, seenFlagFilePaths, result>>

Running == [kind |-> "running"]

\* the paths of the argument files of the model
FileA == <<"a">>

FileB == <<"b">>

\* ioutil.ReadFile
ReadFile(path) ==
    IF Has(files, path)
    THEN [ok |-> TRUE, data |-> files[path]]
    ELSE [ok |-> FALSE, data |-> <<>>]

\* the arguments of an argument file: its lines, trimmed, the empty ones dropped
FlagFilePathArgs(data) ==
    LET lines == Split(data, "\n")
        trimmed == [i \in 1..Len(lines) |-> TrimSpace(lines[i])]
    IN SelectSeq(trimmed, LAMBDA flagFilePathArg : flagFilePathArg # <<>>)

\* a call of buildRec on the builder f: it first resolves f's plugin directives
\* (at "parse"), then loops over args (at "args") with i the next index; name is
\* the argument file f was parsed from, empty for the top-level call
Call(f, args, name) ==
    [f |-> f, args |-> args, i |-> 1, filePaths |-> <<>>, pc |-> "parse", name |-> name]

Top == stack[Len(stack)]

\* the stack with its innermost call replaced
WithTop(frame) == [stack EXCEPT ![Len(stack)] = frame]

\* Build returns err: every active call returns it unchanged
Fail(err) ==
    /\ result' = err
    /\ stack' = <<>>

(***************************************************************************)
(* buildRec.                                                               *)
(***************************************************************************)
\* arg names an argument file: it is not empty and arg[0] is '@'
IsFlagFile(arg) == IF Len(arg) = 0 THEN FALSE ELSE arg[1] = "@"

\* a test that only looks at the file of the call itself
SeenSelfOnly(seen, flagFilePath) == flagFilePath = stack[Len(stack)].name

\* sub file paths put in front
PrependSubFilePaths(filePaths, subFilePaths) == subFilePaths \o filePaths

\* a test that finds no argument file seen
SeenNever(seen, flagFilePath) == FALSE

\* the test of the shared set: the argument file was seen before
Seen(seen, flagFilePath) == flagFilePath \in seen

\* filePaths = append(filePaths, subFilePaths...)
AppendSubFilePaths(filePaths, subFilePaths) == filePaths \o subFilePaths

\* buildRec, entry: the directives of this call's builder go to the shared table
ParsePluginNameToPluginInfo ==
    /\ stack # <<>>
    /\ Top.pc = "parse"
    /\ \E order \in Orders(DOMAIN Top.f.pluginNameToValue) :
          LET r == parsePluginNameToPluginInfo(Top.f, pluginNameToPluginInfo, order)
          IN /\ pluginNameToPluginInfo' = r.info
             /\ IF r.err # NoError
                THEN Fail(r.err)
                ELSE /\ stack' = WithTop([Top EXCEPT !.pc = "args"])
                     /\ UNCHANGED result
    /\ UNCHANGED <<argv, files, seenFlagFilePaths>>

\* buildRec, loop body for an argument that is no argument file
Arg ==
    /\ stack # <<>>
    /\ Top.pc = "args"
    /\ Top.i <= Len(Top.args)
    /\ LET arg == Top.args[Top.i]
       IN /\ ~IsFlagFile(arg)
          /\ IF Len(arg) = 0
             THEN Fail(errArgEmpty)
             ELSE /\ stack' = WithTop([Top EXCEPT !.filePaths = Append(@, arg),
                                                  !.i = @ + 1])
                  /\ UNCHANGED result
    /\ UNCHANGED <<argv, files, pluginNameToPluginInfo, seenFlagFilePaths>>

\* buildRec, loop body for an argument file: up to the recursive call
ArgFile ==
    /\ stack # <<>>
    /\ Top.pc = "args"
    /\ Top.i <= Len(Top.args)
    /\ LET arg == Top.args[Top.i]
           flagFilePath == Tail(arg)
           read == ReadFile(flagFilePath)
           parsed == Parse(newFlagsBuilder, FlagFilePathArgs(read.data), <<>>)
       IN /\ IsFlagFile(arg)
          /\ IF Seen(seenFlagFilePaths, flagFilePath)
             THEN /\ Fail(Error("RecursiveReference", flagFilePath))
                  /\ UNCHANGED seenFlagFilePaths
             ELSE /\ seenFlagFilePaths' = seenFlagFilePaths \cup {flagFilePath}
                  /\ IF ~read.ok THEN Fail(errReadFile(flagFilePath))
                     ELSE IF ~parsed.ok THEN Fail(errParse(flagFilePath))
                     ELSE /\ stack' = Append(stack, Call(parsed.f, parsed.args, flagFilePath))
                          /\ UNCHANGED result
    /\ UNCHANGED <<argv, files, pluginNameToPluginInfo>>

\* the recursive call returns: merge, and the sub file paths are appended
ReturnRec ==
    /\ Len(stack) > 1
    /\ Top.pc = "args"
    /\ Top.i > Len(Top.args)
    /\ LET caller == stack[Len(stack) - 1]
       IN stack' = Append(SubSeq(stack, 1, Len(stack) - 2),
                          [caller EXCEPT !.f = merge(@, Top.f),
                                         !.filePaths = AppendSubFilePaths(@, Top.filePaths),
                                         !.i = @ + 1])
    /\ UNCHANGED <<argv, files, pluginNameToPluginInfo, seenFlagFilePaths, result>>

(***************************************************************************)
(* Build, after buildRec returned.                                         *)
(***************************************************************************)
\* the check of the options alone
CheckPluginInfoOptOnly(pluginName, pluginInfo) ==
    IF pluginInfo.Out = <<>> /\ pluginInfo.Opt # <<>>
    THEN Error("CannotSpecifyOptWithoutOut", pluginName)
    ELSE NoError

\* the error of the check of one plugin of the table
CheckPluginInfo(pluginName, pluginInfo) ==
    IF pluginInfo.Out = <<>> /\ pluginInfo.Opt # <<>>
    THEN Error("CannotSpecifyOptWithoutOut", pluginName)
    ELSE IF pluginInfo.Out = <<>> /\ pluginInfo.Path # <<>>
    THEN Error("CannotSpecifyPathWithoutOut", pluginName)
    ELSE NoError

\* the loop over the table in the order the map yields its keys
RECURSIVE CheckPluginInfos(_, _)
CheckPluginInfos(table, order) ==
    IF order = <<>> THEN NoError
    ELSE LET err == CheckPluginInfo(Head(order), table[Head(order)])
         IN IF err # NoError THEN err ELSE CheckPluginInfos(table, Tail(order))

\* the flags of the environment: the builder's, with the defaults filled in
EnvFlags(f) ==
    [IncludeDirPaths |-> IF Len(f.IncludeDirPaths) = 0 THEN defaultIncludeDirPaths
                         ELSE f.IncludeDirPaths,
     IncludeImports |-> f.IncludeImports,
     IncludeSourceInfo |-> f.IncludeSourceInfo,
     PrintFreeFieldNumbers |-> f.PrintFreeFieldNumbers,
     Output |-> f.Output,
     ErrorFormat |-> IF f.ErrorFormat = <<>> THEN defaultErrorFormat ELSE f.ErrorFormat]

\* what Build returns when the number of input paths is not looked at
BuildResultAnyFilePaths(f, table, filePaths, order) ==
    IF checkUnsupported(f) # NoError THEN checkUnsupported(f)
    ELSE IF CheckPluginInfos(table, order) # NoError THEN CheckPluginInfos(table, order)
    ELSE [kind |-> "env", flags |-> EnvFlags(f),
          PluginNameToPluginInfo |-> table, FilePaths |-> filePaths]

\* what Build returns once buildRec returned filePaths without an error
BuildResult(f, table, filePaths, order) ==
    IF checkUnsupported(f) # NoError THEN checkUnsupported(f)
    ELSE IF CheckPluginInfos(table, order) # NoError THEN CheckPluginInfos(table, order)
    ELSE IF Len(filePaths) = 0 THEN errNoInputFiles
    ELSE [kind |-> "env", flags |-> EnvFlags(f),
          PluginNameToPluginInfo |-> table, FilePaths |-> filePaths]

Build ==
    /\ Len(stack) = 1
    /\ Top.pc = "args"
    /\ Top.i > Len(Top.args)
    /\ \E order \in Orders(DOMAIN pluginNameToPluginInfo) :
          result' = BuildResult(Top.f, pluginNameToPluginInfo, Top.filePaths, order)
    /\ stack' = <<>>
    /\ UNCHANGED <<argv, files, pluginNameToPluginInfo, seenFlagFilePaths>>

Next ==
    \/ ParsePluginNameToPluginInfo
    \/ Arg
    \/ ArgFile
    \/ ReturnRec
    \/ Build

(***************************************************************************)
(* Inputs.                                                                 *)
(***************************************************************************)
\* the contents of a file with the given lines
RECURSIVE Join(_)
Join(lines) ==
    IF lines = <<>> THEN <<>> ELSE Head(lines) \o <<"\n">> \o Join(Tail(lines))

\* "--name=value", "--name" and "@path"
Flag(name, value) == <<"-", "-">> \o name \o <<"=">> \o value

BoolFlag(name) == <<"-", "-">> \o name

Ref(path) == <<"@">> \o path

\* some line of lines refers to the argument file path
Mentions(lines, path) == \E i \in 1..Len(lines) : TrimSpace(lines[i]) = Ref(path)

\* no file, or a file with lines drawn from Lines
FileOver(Lines) == {{}} \cup {{lines} : lines \in SeqsUpTo(Lines, MaxLines)}

\* the file system with the files a and b, each a set of at most one list of lines
FileSystem(a, b) ==
    [path \in {FileA : x \in a} \cup {FileB : x \in b} |->
        Join(CHOOSE lines \in (IF path = FileA THEN a ELSE b) : TRUE)]

\* Build is called on a builder the top-level flags were parsed into, with the
\* positional arguments; the flags are drawn from Flags, the positional
\* arguments from Args, the lines of the argument files from LinesA and LinesB.
\* A file nothing can refer to does not exist.
InitOver(Flags, Args, LinesA, LinesB) ==
    \E flags \in SeqsUpTo(Flags, MaxFlags), args \in SeqsUpTo(Args, MaxArgs) :
    \E a \in (IF Mentions(args, FileA) THEN FileOver(LinesA) ELSE {{}}) :
    \E b \in (IF Mentions(args, FileB) \/ (\E lines \in a : Mentions(lines, FileB))
              THEN FileOver(LinesB) ELSE {{}}) :
       LET parsed == Parse(newFlagsBuilder, flags \o args, <<>>)
       IN /\ parsed.ok
          /\ argv = flags \o args
          /\ files = FileSystem(a, b)
          /\ stack = <<Call(parsed.f, parsed.args, <<>>)>>
          /\ pluginNameToPluginInfo = EmptyMap
          /\ seenFlagFilePaths = {}
          /\ result = Running

\* input paths
PathX == <<"x">>

PathY == <<"y">>

PathZ == <<"z">>

\* the inputs of Spec: input paths, the empty argument, references to the
\* argument files (a file may refer to itself and to the other file), a line
\* with blanks around it, and a flag among the lines of a file
ExpandFlags == {}

ExpandArgs == {PathX, <<>>, Ref(FileA), Ref(FileB)}

ExpandLinesA == {<<" ">> \o PathY \o <<" ">>, Ref(FileA), Ref(FileB)}

ExpandLinesB == {PathZ, Ref(FileA), BoolFlag(includeImportsFlagName)}

Init == InitOver(ExpandFlags, ExpandArgs, ExpandLinesA, ExpandLinesB)

Spec == Init /\ [][Next]_vars

\* Build runs in one thread, to its end: a step that can be taken is taken.
\* Where the innermost call is at a reference to an argument file, ArgFile is
\* the one step that can be taken, and it leaves that place (a call is made or
\* Build returns): its fairness is that the resolution does not stay there.
FairSpec ==
    /\ Init /\ [][Next]_vars
    /\ WF_vars(ParsePluginNameToPluginInfo)
    /\ WF_vars(Arg)
    /\ WF_vars(ReturnRec)
    /\ WF_vars(Build)
    /\ []<>~(/\ stack # <<>>
             /\ Top.pc = "args"
             /\ Top.i <= Len(Top.args)
             /\ IsFlagFile(Top.args[Top.i]))

\* plugin directives and values of the plugin flag
PluginFoo == <<"foo">>

PluginBar == <<"bar">>

Out(pluginName, value) == Flag(pluginName \o <<"_", "out">>, value)

Opt(pluginName, value) == Flag(pluginName \o <<"_", "opt">>, value)

Plugin(value) == Flag(pluginPathValuesFlagName, value)

\* "opt:out", the combined form of an out directive's value
Combined(opt, out) == opt \o <<":">> \o out

ValueD == <<"d">>

ValueE == <<"e">>

ValueO == <<"o">>

ValueP == <<"p">>

ValueAB == <<"a", ",", "b">>

\* the inputs of SpecPlugin: out and opt directives of the plugin foo in one
\* argument list, the top-level one; the values are plain, combined ("o:d")
\* and combined with a list of options ("a,b:d")
PluginFlags ==
    {Out(PluginFoo, ValueD), Out(PluginFoo, ValueE),
     Out(PluginFoo, Combined(ValueO, ValueD)), Out(PluginFoo, Combined(ValueAB, ValueD)),
     Opt(PluginFoo, ValueO), Opt(PluginFoo, ValueAB)}

PluginArgs == {PathX, Ref(FileA)}

PluginLinesA == {PathY, Opt(PluginFoo, ValueP)}

PluginLinesB == {}

InitPlugin == InitOver(PluginFlags, PluginArgs, PluginLinesA, PluginLinesB)

SpecPlugin == InitPlugin /\ [][Next]_vars

\* the inputs of SpecAcross: directives of the plugin foo at the top level, in
\* the file a and in the file b, which a may refer to
AcrossFlags == {Out(PluginFoo, ValueD)}

AcrossArgs == {PathX, Ref(FileA), Ref(FileB)}

AcrossLinesA ==
    {Out(PluginFoo, ValueE), Out(PluginFoo, Combined(ValueO, ValueD)),
     Opt(PluginFoo, ValueP), Ref(FileB)}

AcrossLinesB == {Out(PluginFoo, ValueD), Opt(PluginFoo, ValueP)}

InitAcross == InitOver(AcrossFlags, AcrossArgs, AcrossLinesA, AcrossLinesB)

SpecAcross == InitAcross /\ [][Next]_vars

\* the inputs of SpecPluginPath: values of the plugin flag, bare with a
\* directory, named with and without the prefix, with directives of the
\* plugins foo and bar and a flag that is not supported
PluginPathBare == <<"dir", "/", "protoc", "-", "gen", "-", "foo">>

PluginPathNamed == <<"protoc", "-", "gen", "-", "foo", "=", "p">>

PluginPathNoPrefix == <<"foo", "=", "p">>

PluginPathFlags ==
    {Plugin(PluginPathBare), Plugin(PluginPathNamed), Plugin(PluginPathNoPrefix),
     Out(PluginFoo, ValueD), Opt(PluginFoo, ValueO), Opt(PluginBar, ValueO),
     Flag(encodeFlagName, <<"m">>)}

PluginPathArgs == {PathX, Ref(FileA)}

PluginPathLinesA == {Plugin(PluginPathNamed), Out(PluginFoo, ValueD), Opt(PluginFoo, ValueP)}

PluginPathLinesB == {}

InitPluginPath ==
    InitOver(PluginPathFlags, PluginPathArgs, PluginPathLinesA, PluginPathLinesB)

SpecPluginPath == InitPluginPath /\ [][Next]_vars

\* the inputs of SpecRaw: out and opt directives whose values are empty, hold
\* commas, or hold no, one or two colons, in the top-level argument list, and
\* an out directive with the empty value in the file a
ValueOPD == <<"o", ":", "p", ":", "d">>

ValueABCD == <<"a", ":", "b", ",", "c", ":", "d">>

RawFlags ==
    {Out(PluginFoo, <<>>), Out(PluginFoo, ValueD), Out(PluginFoo, Combined(ValueO, ValueD)),
     Out(PluginFoo, ValueOPD), Out(PluginFoo, ValueAB), Out(PluginFoo, ValueABCD),
     Opt(PluginFoo, ValueAB), Out(PluginBar, ValueD)}

RawArgs == {PathX, Ref(FileA)}

RawLinesA == {Out(PluginFoo, <<>>)}

RawLinesB == {}

InitRaw == InitOver(RawFlags, RawArgs, RawLinesA, RawLinesB)

SpecRaw == InitRaw /\ [][Next]_vars

\* the inputs of SpecToggle: the three toggles, set with and without a value,
\* at the top level, in the file a and in the file b, which a may refer to
ValueFalse == <<"false">>

ToggleFlags == {BoolFlag(includeImportsFlagName), Flag(includeImportsFlagName, ValueFalse)}

ToggleArgs == {PathX, Ref(FileA)}

ToggleLinesA ==
    {BoolFlag(includeSourceInfoFlagName), Flag(includeImportsFlagName, ValueFalse), Ref(FileB)}

ToggleLinesB == {BoolFlag(includeImportsFlagName), BoolFlag(printFreeFieldNumbersFlagName)}

InitToggle == InitOver(ToggleFlags, ToggleArgs, ToggleLinesA, ToggleLinesB)

SpecToggle == InitToggle /\ [][Next]_vars

\* the inputs of SpecOutput: the output location and the error format, set at
\* the top level, in the file a and in the file b; the top level may refer to
\* both files, and a to b
OutputFlags == {Flag(outputFlagName, ValueD)}

OutputArgs == {PathX, Ref(FileA), Ref(FileB)}

OutputLinesA == {Flag(outputFlagName, ValueE), Flag(errorFormatFlagName, ValueE), Ref(FileB)}

OutputLinesB == {Flag(outputFlagName, ValueP), Flag(errorFormatFlagName, ValueP)}

InitOutput == InitOver(OutputFlags, OutputArgs, OutputLinesA, OutputLinesB)

SpecOutput == InitOutput /\ [][Next]_vars

\* the inputs of SpecInclude: include directories given at the top level, by
\* the long flag and by its alias, in the file a and in the file b; the top
\* level may refer to both files, and a to b; the directory d is given in
\* several places
ShortI(value) == <<"-", "I", "=">> \o value

IncludeFlags == {Flag(includeDirPathsFlagName, ValueD), ShortI(ValueE)}

IncludeArgs == {PathX, Ref(FileA), Ref(FileB)}

IncludeLinesA == {Flag(includeDirPathsFlagName, ValueD), Ref(FileB)}

IncludeLinesB == {Flag(includeDirPathsFlagName, ValueP), Flag(includeDirPathsFlagName, ValueD)}

InitInclude == InitOver(IncludeFlags, IncludeArgs, IncludeLinesA, IncludeLinesB)

SpecInclude == InitInclude /\ [][Next]_vars

\* the inputs of SpecLegacy: the flags that are not supported, with a value and
\* with the empty value, at the top level, in the file a and in the file b,
\* which a may refer to
ValueM == <<"m">>

LegacyFlags == {Flag(encodeFlagName, ValueM), Flag(encodeFlagName, <<>>)}

LegacyArgs == {PathX, Ref(FileA)}

LegacyLinesA == {Flag(decodeFlagName, ValueM), Flag(descriptorSetInFlagName, <<>>), Ref(FileB)}

LegacyLinesB == {Flag(descriptorSetInFlagName, ValueD), BoolFlag(decodeRawFlagName)}

InitLegacy == InitOver(LegacyFlags, LegacyArgs, LegacyLinesA, LegacyLinesB)

SpecLegacy == InitLegacy /\ [][Next]_vars

\* the inputs of SpecOnce: an out directive of the plugin foo and a value of the
\* plugin flag, at the top level (the out directive), in the file a and in the
\* file b, which a may refer to
OnceFlags == {Out(PluginFoo, ValueD)}

OnceArgs == {PathX, Ref(FileA)}

OnceLinesA == {Plugin(PluginPathNamed), Out(PluginFoo, ValueD), Ref(FileB)}

OnceLinesB == {Plugin(PluginPathBare), Out(PluginFoo, ValueE)}

InitOnce == InitOver(OnceFlags, OnceArgs, OnceLinesA, OnceLinesB)

SpecOnce == InitOnce /\ [][Next]_vars

(***************************************************************************)
(* Properties of the expansion of argument files.                          *)
(***************************************************************************)
Returned == result # Running

Succeeded == result.kind = "env"

Failed(error) == result.kind = "error" /\ result.error = error

FailedWith(error, arg) == result = Error(error, arg)

\* the positional arguments among the lines of the argument file at path
Positional(path) == Parse(newFlagsBuilder, FlagFilePathArgs(files[path]), <<>>).args

\* the input paths of a list of positional arguments, every "@file" replaced in
\* place by the input paths of its file, to the given depth of nesting
RECURSIVE Expansion(_, _)
Expansion(args, depth) ==
    IF args = <<>> THEN <<>>
    ELSE LET arg == Head(args)
         IN (IF ~IsFlagFile(arg) THEN <<arg>>
             ELSE IF depth = 0 \/ ~Has(files, Tail(arg)) THEN <<>>
             ELSE Expansion(Positional(Tail(arg)), depth - 1))
            \o Expansion(Tail(args), depth)

\* the argument files being expanded: the chain of the active calls
Chain == {stack[k].name : k \in 2..Len(stack)}

\* the argument the innermost call is at is a reference to an argument file
AtArgFile ==
    /\ stack # <<>>
    /\ Top.pc = "args"
    /\ Top.i <= Len(Top.args)
    /\ IsFlagFile(Top.args[Top.i])

\* C1: when Build succeeds, FilePaths is the sequence of the positional
\* arguments that are no "@file", in depth-first, left-to-right order, each
\* "@file" replaced in place by what its file yields; nothing is reordered,
\* dropped or deduplicated.
C1_FilePathsInEncounterOrder ==
    Succeeded =>
        result.FilePaths =
            Expansion(Parse(newFlagsBuilder, argv, <<>>).args, Cardinality(DOMAIN files))

\* a resolution that succeeded with paths of the arguments and of nested files
C1_Witness ==
    /\ Succeeded
    /\ seenFlagFilePaths = {FileA, FileB}
    /\ result.FilePaths = <<PathX, PathY, PathZ>>

\* C2: when the expansion reaches an "@path" whose file is being expanded
\* higher up the chain, Build fails with the recursive reference error that
\* names that path.
C2_CycleIsRecursiveReference ==
    [][(AtArgFile /\ Tail(Top.args[Top.i]) \in Chain)
         => result' = Error("RecursiveReference", Tail(Top.args[Top.i]))]_vars

\* a resolution that failed on a cycle through two files, a -> b -> a
C2_Witness ==
    /\ argv = <<Ref(FileA)>>
    /\ Has(files, FileA) /\ files[FileA] = Join(<<Ref(FileB)>>)
    /\ Has(files, FileB) /\ files[FileB] = Join(<<Ref(FileA)>>)
    /\ FailedWith("RecursiveReference", FileA)

\* C3: Build returns the recursive reference error only when the "@path" it
\* expands is a file being expanded higher up the chain.
C3_RecursiveReferenceOnlyOnCycle ==
    [][(result'.kind = "error" /\ result'.error = "RecursiveReference")
         => result'.arg \in Chain]_vars

(***************************************************************************)
(* Properties of the plugin directives.                                    *)
(***************************************************************************)
\* the number of positions of the sequence seq that satisfy Test
Count(seq, Test(_)) == Cardinality({i \in 1..Len(seq) : Test(seq[i])})

IsFlagArg(arg) == HasPrefix(arg, <<"-", "-">>)

\* the name of a flag given as "--name=value"
FlagName(arg) == SplitN2(SubSeq(arg, 3, Len(arg)), "=")[1]

IsOutDirective(arg) == IsFlagArg(arg) /\ HasSuffix(FlagName(arg), <<"_", "out">>)

IsOptDirective(arg) == IsFlagArg(arg) /\ HasSuffix(FlagName(arg), <<"_", "opt">>)

IsDirective(arg) == IsOutDirective(arg) \/ IsOptDirective(arg)

\* the flags of the top-level argument vector
TopFlags == SelectSeq(argv, IsFlagArg)

\* the argument files that were read and parsed: their directives and plugin
\* paths are what the calls of buildRec applied to the shared table
Expanded == {path \in seenFlagFilePaths : Has(files, path)}

\* the lines of an expanded argument file, none for a file not expanded
LinesOf(path) == IF path \in Expanded THEN FlagFilePathArgs(files[path]) ELSE <<>>

\* every line of every argument list that was parsed
AllLines == argv \o LinesOf(FileA) \o LinesOf(FileB)

\* the plugin table of the returned environment
Info(pluginName) == result.PluginNameToPluginInfo[pluginName]

\* C4: the combined form "--foo_out=o:d" resolves to the same plugin info,
\* Out = d and Opt = o, as "--foo_opt=o" and "--foo_out=d" given separately in
\* either order, also for an options string that is a list, "a,b".
C4_CombinedEqualsSeparate ==
    \A o \in {ValueO, ValueAB} :
        (/\ Succeeded
         /\ seenFlagFilePaths = {}
         /\ TopFlags \in {<<Out(PluginFoo, Combined(o, ValueD))>>,
                          <<Opt(PluginFoo, o), Out(PluginFoo, ValueD)>>,
                          <<Out(PluginFoo, ValueD), Opt(PluginFoo, o)>>})
        => Info(PluginFoo) = [Out |-> ValueD, Opt |-> o, Path |-> <<>>]

\* C5: options given for one plugin both in the combined form "--foo_out=o:d"
\* and by a separate "--foo_opt=o2", in one argument list or in two, make Build
\* fail with the duplicate options error for the plugin (the inputs looked at
\* hold these two directives and no other, an input path, and no reference to
\* a file that is missing).
C5_CombinedAndSeparateIsDuplicateOpt ==
    \A o \in {ValueO, ValueAB}, o2 \in {ValueO, ValueP, ValueAB} :
        (/\ Returned
         /\ Expanded = seenFlagFilePaths
         /\ Count(AllLines, LAMBDA arg : arg \in {PathX, PathY, PathZ}) > 0
         /\ Count(AllLines, IsDirective) = 2
         /\ Count(AllLines, LAMBDA arg : arg = Out(PluginFoo, Combined(o, ValueD))) = 1
         /\ Count(AllLines, LAMBDA arg : arg = Opt(PluginFoo, o2)) = 1)
        => FailedWith("DuplicateOpt", PluginFoo)


C7_RepeatedDirectiveIsError ==
    (/\ Returned
     /\ Count(argv, IsOutDirective) >= 2 \/ Count(argv, IsOptDirective) >= 2)
    => ~Succeeded

\* C7 as amended: a directive repeated in one argument list is no error of its
\* own.  With no argument file expanded Build never fails with the duplicate
\* out error, and fails with the duplicate options error only when the list
\* holds an out directive in the combined form; of two out directives the last
\* one gives the output location.
C7_RepeatedDirectiveKeepsLast ==
    /\ (Returned /\ seenFlagFilePaths = {}) =>
          /\ ~Failed("DuplicateOut")
          /\ Count(argv, LAMBDA arg : IsOutDirective(arg) /\ Count(arg, LAMBDA c : c = ":") > 0) = 0
                => ~Failed("DuplicateOpt")
    /\ \A first, last \in {ValueD, ValueE} :
          (Returned /\ seenFlagFilePaths = {} /\ Len(argv) > 2
           /\ TopFlags = <<Out(PluginFoo, first), Out(PluginFoo, last)>>)
          => Succeeded /\ Info(PluginFoo).Out = last

\* the out directive was given twice in the top-level list, with two values,
\* and the resolution succeeded
C7_Witness ==
    /\ Succeeded
    /\ TopFlags = <<Out(PluginFoo, ValueD), Out(PluginFoo, ValueE)>>
    /\ Info(PluginFoo).Out = ValueE

(***************************************************************************)
(* Properties of the explicit plugin paths and of the final check.         *)
(***************************************************************************)
IsPluginPath(arg) == arg \in {Plugin(PluginPathBare), Plugin(PluginPathNamed)}

IsOutOf(pluginName, arg) == IsOutDirective(arg) /\ FlagName(arg) = pluginName \o <<"_", "out">>

IsOptOf(pluginName, arg) == IsOptDirective(arg) /\ FlagName(arg) = pluginName \o <<"_", "opt">>

\* the top-level list: one plugin path value and the out directive of foo, in
\* either order, and an input path; no argument file
OnePluginPath(value) ==
    /\ Returned
    /\ seenFlagFilePaths = {}
    /\ Count(argv, LAMBDA arg : arg = PathX) > 0
    /\ TopFlags \in {<<Plugin(value), Out(PluginFoo, ValueD)>>,
                     <<Out(PluginFoo, ValueD), Plugin(value)>>}

\* C8 as claimed: a bare value with the base name "protoc-gen-foo" and the
\* named value "foo=p" each set the path of the plugin foo.
C8_NamedValueKeyedByName ==
    /\ OnePluginPath(PluginPathBare) => Succeeded /\ Info(PluginFoo).Path = PluginPathBare
    /\ OnePluginPath(PluginPathNoPrefix) => Succeeded /\ Info(PluginFoo).Path = ValueP

\* C8 as amended: a bare value with the base name "protoc-gen-foo" and the
\* named value "protoc-gen-foo=p" each set the path of the plugin foo, the
\* whole value for the bare form and what follows "=" for the named form; the
\* named value "foo=p" is rejected, its name lacking the prefix.
C8_BothFormsKeyedByTrimmedName ==
    /\ OnePluginPath(PluginPathBare) =>
          /\ Succeeded
          /\ DOMAIN result.PluginNameToPluginInfo = {PluginFoo}
          /\ Info(PluginFoo).Path = PluginPathBare
    /\ OnePluginPath(PluginPathNamed) =>
          /\ Succeeded
          /\ DOMAIN result.PluginNameToPluginInfo = {PluginFoo}
          /\ Info(PluginFoo).Path = ValueP
    /\ OnePluginPath(PluginPathNoPrefix) =>
          FailedWith("PluginPathNameInvalidPrefix", PluginFoo)
    /\ (Returned /\ Count(AllLines, LAMBDA arg : arg = Plugin(PluginPathNoPrefix)) > 0)
          => ~Succeeded

\* the named form, with the prefix, set the path of the plugin foo
C8_Witness ==
    /\ Succeeded
    /\ TopFlags = <<Plugin(PluginPathNamed), Out(PluginFoo, ValueD)>>
    /\ Info(PluginFoo) = [Out |-> ValueD, Opt |-> <<>>, Path |-> ValueP]

\* C9: two plugin path values for the same plugin, in one argument list or in
\* two expansions, make Build fail with the duplicate plugin path error (the
\* inputs looked at hold nothing else that is in error: no value without the
\* prefix, and at most one out and one opt directive of the plugin).
C9_TwoPathsIsDuplicatePluginPath ==
    (/\ Returned
     /\ Count(AllLines, IsPluginPath) >= 2
     /\ Count(AllLines, LAMBDA arg : arg = Plugin(PluginPathNoPrefix)) = 0
     /\ Count(AllLines, LAMBDA arg : IsOutOf(PluginFoo, arg)) <= 1
     /\ Count(AllLines, LAMBDA arg : IsOptOf(PluginFoo, arg)) <= 1)
    => FailedWith("DuplicatePluginPath", PluginFoo)

\* the two values were given in two expansions, the top level and the file a
C9_Witness ==
    /\ FailedWith("DuplicatePluginPath", PluginFoo)
    /\ Count(argv, IsPluginPath) = 1
    /\ Count(LinesOf(FileA), IsPluginPath) = 1

\* buildRec returned to Build without an error
AtBuild ==
    /\ Len(stack) = 1
    /\ Top.pc = "args"
    /\ Top.i > Len(Top.args)

\* the plugin has no output location but options or a path
Outless(pluginName) ==
    /\ pluginNameToPluginInfo[pluginName].Out = <<>>
    /\ \/ pluginNameToPluginInfo[pluginName].Opt # <<>>
       \/ pluginNameToPluginInfo[pluginName].Path # <<>>

\* C10 as claimed, for a table of one plugin and no flag that is not supported:
\* options without an output location give the opt without out error, a path
\* without an output location gives the path without out error, and no
\* environment holds a plugin with options or a path and no output location.
C10_OutlessErrors ==
    [][(AtBuild /\ checkUnsupported(Top.f) = NoError
          /\ DOMAIN pluginNameToPluginInfo = {PluginFoo})
        => LET info == pluginNameToPluginInfo[PluginFoo]
           IN /\ (info.Out = <<>> /\ info.Opt # <<>>)
                    => result' = Error("CannotSpecifyOptWithoutOut", PluginFoo)
              /\ (info.Out = <<>> /\ info.Path # <<>>)
                    => result' = Error("CannotSpecifyPathWithoutOut", PluginFoo)
              /\ result'.kind = "env" => ~Outless(PluginFoo)]_vars

\* C10 as amended: once every argument file is expanded and no flag that is not
\* supported was used, the whole table is checked.  If a plugin has no output
\* location but options or a path, Build fails with an error that names such a
\* plugin: opt without out when that plugin has options, path without out when
\* it has a path and no options.  No environment holds such a plugin, and an
\* opt directive at the top level with the out directive in an argument file
\* is accepted.
C10_OutlessCheckOnWholeTable ==
    [][AtBuild =>
        /\ result'.kind = "env" => \A pluginName \in DOMAIN pluginNameToPluginInfo :
                                      ~Outless(pluginName)
        /\ (checkUnsupported(Top.f) = NoError
              /\ \E pluginName \in DOMAIN pluginNameToPluginInfo : Outless(pluginName))
           => \E pluginName \in DOMAIN pluginNameToPluginInfo :
                 /\ Outless(pluginName)
                 /\ result' = Error(IF pluginNameToPluginInfo[pluginName].Opt # <<>>
                                    THEN "CannotSpecifyOptWithoutOut"
                                    ELSE "CannotSpecifyPathWithoutOut", pluginName)
        /\ (TopFlags = <<Opt(PluginFoo, ValueO)>>
              /\ LinesOf(FileA) = <<Out(PluginFoo, ValueD)>>
              /\ Count(argv, LAMBDA arg : arg = PathX) > 0)
           => /\ result'.kind = "env"
              /\ result'.PluginNameToPluginInfo[PluginFoo] =
                    [Out |-> ValueD, Opt |-> ValueO, Path |-> <<>>]]_vars

\* the opt directive was given at the top level, the out directive in the file
\* a, and the resolution succeeded
C10_Witness ==
    /\ Succeeded
    /\ TopFlags = <<Opt(PluginFoo, ValueO)>>
    /\ LinesOf(FileA) = <<Out(PluginFoo, ValueD)>>
    /\ Info(PluginFoo) = [Out |-> ValueD, Opt |-> ValueO, Path |-> <<>>]

(***************************************************************************)
(* Properties of the flags of the environment and of the end of Build.     *)
(***************************************************************************)
\* the input paths the top-level arguments and the argument files yield
InputPaths == Expansion(Parse(newFlagsBuilder, argv, <<>>).args, Cardinality(DOMAIN files))

\* C11: when the expansion is over without an error, no flag that is not
\* supported was used and no plugin lacks its output location, and the
\* arguments and the argument files yield no input path, Build fails with the
\* no input files error; the FilePaths of every environment is not empty.
C11_NoInputFilesError ==
    /\ [](Succeeded => result.FilePaths # <<>>)
    /\ [][(/\ AtBuild
           /\ checkUnsupported(Top.f) = NoError
           /\ \A pluginName \in DOMAIN pluginNameToPluginInfo : ~Outless(pluginName)
           /\ InputPaths = <<>>)
          => result' = errNoInputFiles]_vars

\* Build failed for the lack of input paths after two argument files, which
\* hold no input path, were expanded
C11_Witness ==
    /\ result = errNoInputFiles
    /\ Expanded = {FileA, FileB}
    /\ InputPaths = <<>>

(***************************************************************************)
(* Properties of the values of the plugin directives.                      *)
(***************************************************************************)
\* the value of a flag given as "--name=value"
FlagValue(arg) == SplitN2(SubSeq(arg, 3, Len(arg)), "=")[2]

\* the number of colons of a value
Colons(value) == Cardinality(SepPositions(value, ":"))

\* the values of the out directives among the inputs
OutValues == {FlagValue(arg) : arg \in {flag \in RawFlags : IsOutDirective(flag)}}

\* the top-level list: the out directive of foo with the given value, no other
\* flag, and an input path; no argument file
OneOut(value) ==
    /\ Returned
    /\ seenFlagFilePaths = {}
    /\ Count(argv, LAMBDA arg : arg = PathX) > 0
    /\ TopFlags = <<Out(PluginFoo, value)>>

\* C12: an out directive whose value holds two or more colons makes Build fail
\* with the multiple colons error that names the plugin and the value; a value
\* without a colon is the output location, whole, with no options; a value with
\* one colon gives the options, before the colon, and the output location,
\* after it.
C12_ColonsOfOutValue ==
    \A value \in OutValues :
        OneOut(value) =>
            IF Colons(value) >= 2
            THEN FailedWith("OutMultipleColons", <<PluginFoo, value>>)
            ELSE /\ Succeeded
                 /\ Info(PluginFoo) =
                       IF Colons(value) = 0
                       THEN [Out |-> value, Opt |-> <<>>, Path |-> <<>>]
                       ELSE [Out |-> Split(value, ":")[2], Opt |-> Split(value, ":")[1],
                             Path |-> <<>>]

\* the fields of the builder that hold a toggle
Toggles == {"IncludeImports", "IncludeSourceInfo", "PrintFreeFieldNumbers"}

\* the builder the flags of an argument list are parsed into
Parsed(list) == Parse(newFlagsBuilder, list, <<>>).f

\* C13: the toggle of the environment is true exactly when the top-level
\* arguments or the lines of some expanded argument file, at any depth, set it
\* to true; a merge never turns a toggle of the parent from true to false.
C13_TogglesAreOred ==
    /\ [](Succeeded =>
            \A toggle \in Toggles :
                result.flags[toggle] =
                    (\/ Parsed(argv)[toggle]
                     \/ \E path \in Expanded : Parsed(LinesOf(path))[toggle]))
    /\ [][\A k \in 1..Len(stack') : \A toggle \in Toggles :
             (k <= Len(stack) /\ stack[k].f[toggle]) => stack'[k].f[toggle]]_vars

\* the toggle is false at the top level and in the file a, true in the file b,
\* which a refers to, and true in the environment
C13_Witness ==
    /\ Succeeded
    /\ TopFlags = <<Flag(includeImportsFlagName, ValueFalse)>>
    /\ Expanded = {FileA, FileB}
    /\ Count(LinesOf(FileA), LAMBDA arg : arg = Flag(includeImportsFlagName, ValueFalse)) = 1
    /\ Parsed(LinesOf(FileB)).IncludeImports
    /\ result.flags.IncludeImports

\* the argument files a list of positional arguments leads to, in the order in
\* which they are expanded: a file before the files it refers to
RECURSIVE FilesInOrder(_, _)
FilesInOrder(args, depth) ==
    IF args = <<>> THEN <<>>
    ELSE LET arg == Head(args)
         IN (IF ~IsFlagFile(arg) \/ depth = 0 THEN <<>>
             ELSE IF ~Has(files, Tail(arg)) THEN <<>>
             ELSE <<Tail(arg)>> \o FilesInOrder(Positional(Tail(arg)), depth - 1))
            \o FilesInOrder(Tail(args), depth)

\* the expanded argument files of the resolution, in the order of expansion
ExpandedInOrder == FilesInOrder(Parse(newFlagsBuilder, argv, <<>>).args, Cardinality(DOMAIN files))

\* the values the top-level arguments and then each expanded file, in the order
\* of expansion, give to a field
ValuesInOrder(field) ==
    <<Parsed(argv)[field]>>
        \o [k \in 1..Len(ExpandedInOrder) |-> Parsed(LinesOf(ExpandedInOrder[k]))[field]]

\* the last value of the sequence that is not empty, the empty value when
\* there is none
RECURSIVE LastSet(_)
LastSet(values) ==
    IF values = <<>> THEN <<>>
    ELSE IF Last(values) # <<>> THEN Last(values)
    ELSE LastSet(Front(values))

\* a nested call returns to its caller
Returning == Len(stack) > 1 /\ Len(stack') = Len(stack) - 1

\* C14: a merge leaves the parent's output location as it is when the child's
\* is empty and replaces it by the child's otherwise, and the same for the
\* error format.  The output location of the environment is the one set by the
\* argument file expanded last among those that set one, the top-level one
\* when no file set one; so is the error format, for which the default stands
\* when nothing set it.
C14_LastExpandedFileSetsOutput ==
    /\ [](Succeeded =>
            /\ result.flags.Output = LastSet(ValuesInOrder("Output"))
            /\ result.flags.ErrorFormat =
                  IF LastSet(ValuesInOrder("ErrorFormat")) = <<>> THEN defaultErrorFormat
                  ELSE LastSet(ValuesInOrder("ErrorFormat")))
    /\ [][Returning =>
            \A field \in {"Output", "ErrorFormat"} :
                stack'[Len(stack')].f[field] =
                    IF Top.f[field] = <<>> THEN stack[Len(stack) - 1].f[field]
                    ELSE Top.f[field]]_vars

\* the output location is set at the top level, in the file a and in the file
\* b, which is expanded after a, and the environment holds the one of b
C14_Witness ==
    /\ Succeeded
    /\ ExpandedInOrder = <<FileA, FileB>>
    /\ ValuesInOrder("Output") = <<ValueD, ValueE, ValueP>>
    /\ result.flags.Output = ValueP

\* the sequences of a sequence of sequences, one after the other
RECURSIVE Concat(_)
Concat(seqs) == IF seqs = <<>> THEN <<>> ELSE Head(seqs) \o Concat(Tail(seqs))

\* C15: the include directories of the environment are those of the top-level
\* arguments followed by those of each expanded argument file in the order of
\* expansion, a file's own before those of the files it refers to, every entry
\* kept (the default stands when the list is empty); a merge appends the
\* child's list after the parent's.
C15_IncludeDirPathsAppended ==
    /\ [](Succeeded =>
            result.flags.IncludeDirPaths =
                IF Concat(ValuesInOrder("IncludeDirPaths")) = <<>> THEN defaultIncludeDirPaths
                ELSE Concat(ValuesInOrder("IncludeDirPaths")))
    /\ [][Returning =>
            stack'[Len(stack')].f.IncludeDirPaths =
                stack[Len(stack) - 1].f.IncludeDirPaths \o Top.f.IncludeDirPaths]_vars

\* the directory d is given at the top level, in the file a and in the file b,
\* which a refers to, and the environment holds it three times, p of b last
C15_Witness ==
    /\ Succeeded
    /\ ExpandedInOrder = <<FileA, FileB>>
    /\ Mentions(LinesOf(FileA), FileB)
    /\ result.flags.IncludeDirPaths = <<ValueD, ValueD, ValueD, ValueP>>

\* the error Build returns for a flag that is not supported
NotSupported(name) ==
    CASE name = encodeFlagName -> Error("EncodeNotSupported", <<>>)
      [] name = decodeFlagName -> Error("DecodeNotSupported", <<>>)
      [] name = decodeRawFlagName -> Error("DecodeRawNotSupported", <<>>)
      [] name = descriptorSetInFlagName -> Error("DescriptorSetInNotSupported", <<>>)

\* the flags that are not supported and are used in an argument list that was
\* parsed
UsedLegacy ==
    {name \in {encodeFlagName, decodeFlagName, decodeRawFlagName, descriptorSetInFlagName} :
        Count(AllLines, LAMBDA arg : IsFlagArg(arg) /\ FlagName(arg) = name) > 0}

\* C16: when a flag that is not supported is used, at the top level or in an
\* expanded argument file, Build returns no environment: once the expansion is
\* over without an error it fails with the not supported error of such a flag.
C16_LegacyFlagIsRejected ==
    /\ []((Returned /\ UsedLegacy # {}) => ~Succeeded)
    /\ [][(AtBuild /\ UsedLegacy # {} /\ InputPaths # <<>>)
          => result' \in {NotSupported(name) : name \in UsedLegacy}]_vars

(***************************************************************************)
(* Properties of the resolution as a whole.                                *)
(***************************************************************************)
\* the innermost call is about to resolve the directives of its builder
AtParse == stack # <<>> /\ Top.pc = "parse"

\* C17: the resolution is deterministic: what a step of Build returns, an
\* environment or an error with the plugin or path it names, is what it returns
\* in every other run on the same input, whatever the order in which the maps
\* of the plugins yield their keys.
C17_Deterministic ==
    [][/\ AtParse =>
            \A order \in Orders(DOMAIN Top.f.pluginNameToValue) :
                LET r == parsePluginNameToPluginInfo(Top.f, pluginNameToPluginInfo, order)
                IN IF r.err # NoError THEN result' = r.err
                   ELSE result' = Running /\ pluginNameToPluginInfo' = r.info
       /\ AtBuild =>
            \A order \in Orders(DOMAIN pluginNameToPluginInfo) :
                result' = BuildResult(Top.f, pluginNameToPluginInfo, Top.filePaths, order)]_vars

\* the value given with the last flag of the given name in the list
LastValue(list, name) ==
    FlagValue(Last(SelectSeq(list, LAMBDA arg : IsFlagArg(arg) /\ FlagName(arg) = name)))

\* C18: every out or opt directive of an argument list adds one value, the
\* whole value given with it, to the raw argument sequence of the list's
\* builder, and the index recorded for a plugin is the index of the value of
\* its last such directive; so no read at a recorded index is out of range, for
\* values with commas and the empty value as for the others.
C18_OneValuePerDirective ==
    /\ result # Panic
    /\ stack # <<>> =>
         LET f == stack[1].f
         IN /\ Len(f.pluginFake) = Count(argv, IsDirective)
            /\ \A pluginName \in DOMAIN f.pluginNameToValue :
                  LET pluginValue == f.pluginNameToValue[pluginName]
                  IN /\ pluginValue.OutIndex >= 0 =>
                          /\ pluginValue.OutIndex < Len(f.pluginFake)
                          /\ f.pluginFake[pluginValue.OutIndex + 1] =
                                LastValue(argv, pluginName \o <<"_", "out">>)
                     /\ pluginValue.OptIndex >= 0 =>
                          /\ pluginValue.OptIndex < Len(f.pluginFake)
                          /\ f.pluginFake[pluginValue.OptIndex + 1] =
                                LastValue(argv, pluginName \o <<"_", "opt">>)

\* the argument file the innermost call is at
AtPath == Tail(Top.args[Top.i])

\* C19: Build returns, whatever the argument files refer to.  A path is put
\* into the set of the seen paths when its file is read and never leaves it, and
\* a reference to a path of the set fails; so a file is read, and a call made
\* for it, only when its path was not in the set: at most once.
C19_Terminates ==
    /\ <>Returned
    /\ [][seenFlagFilePaths \subseteq seenFlagFilePaths']_vars
    /\ [][AtArgFile =>
            IF AtPath \in seenFlagFilePaths
            THEN /\ result' = Error("RecursiveReference", AtPath)
                 /\ seenFlagFilePaths' = seenFlagFilePaths
            ELSE seenFlagFilePaths' = seenFlagFilePaths \cup {AtPath}]_vars
    /\ [][Len(stack') > Len(stack) =>
            /\ stack'[Len(stack')].name \notin seenFlagFilePaths
            /\ stack'[Len(stack')].name \in seenFlagFilePaths']_vars

\* Build returned on an input where the file a refers to itself: a was read
\* once and the reference to it in its own lines failed
C19_Witness ==
    /\ result = Error("RecursiveReference", FileA)
    /\ Has(files, FileA) /\ Mentions(FlagFilePathArgs(files[FileA]), FileA)
    /\ seenFlagFilePaths = {FileA}

\* the path a value of the plugin flag gives to its plugin
PathOf(value) == IF Len(SplitN2(value, "=")) = 2 THEN SplitN2(value, "=")[2] ELSE value

\* C20: the directives and the values of the plugin flag of an argument list
\* are applied to the shared table once, when the call for that list starts:
\* the table changes at no other step, a merge leaves it as it is, and every
\* call below the innermost one has applied its own already.  So a value of
\* the plugin flag, or an out directive, given once, in an argument file at any
\* depth, leads to no duplicate plugin path or duplicate out error, and is what
\* the environment holds.
C20_AppliedOnce ==
    /\ [][pluginNameToPluginInfo' # pluginNameToPluginInfo => AtParse]_vars
    /\ [][Returning => pluginNameToPluginInfo' = pluginNameToPluginInfo]_vars
    /\ [](\A k \in 1..(Len(stack) - 1) : stack[k].pc = "args")
    /\ []((Returned /\ Count(AllLines, IsPluginPath) <= 1) => ~Failed("DuplicatePluginPath"))
    /\ []((Returned /\ Count(AllLines, LAMBDA arg : IsOutOf(PluginFoo, arg)) <= 1)
            => ~Failed("DuplicateOut"))
    /\ [](Succeeded =>
            \A i \in 1..Len(AllLines) :
                /\ (IsPluginPath(AllLines[i]) /\ Count(AllLines, IsPluginPath) = 1)
                      => Info(PluginFoo).Path = PathOf(FlagValue(AllLines[i]))
                /\ (IsOutOf(PluginFoo, AllLines[i])
                      /\ Count(AllLines, LAMBDA arg : IsOutOf(PluginFoo, arg)) = 1)
                      => Info(PluginFoo).Out = FlagValue(AllLines[i]))

\* the one value of the plugin flag is in the file b, which the file a refers
\* to, and the one out directive in the file a: the resolution succeeded
C20_Witness ==
    /\ Succeeded
    /\ ExpandedInOrder = <<FileA, FileB>>
    /\ Mentions(LinesOf(FileA), FileB)
    /\ Count(AllLines, IsPluginPath) = 1
    /\ Count(LinesOf(FileB), IsPluginPath) = 1
    /\ Count(LinesOf(FileA), LAMBDA arg : IsOutOf(PluginFoo, arg)) = 1
    /\ Info(PluginFoo) = [Out |-> ValueD, Opt |-> <<>>, Path |-> PluginPathBare]
====
